---- MODULE Spec2Model ----
(***************************************************************************)
(* Model of src/lib/fundsTransfer.js: the minute-bucketed scheduled funds  *)
(* transfer ledger (accounts, transactions, pending / completed indexes,   *)
(* the periodic tick and the exported operations).                         *)
(*                                                                         *)
(* Time is a counter of instants, Res instants per minute.  A bucket key   *)
(* (generateTimeStamp) is the pair <<hour, minute>> of an instant.         *)
(* Transaction ids (uuid v1, unique and time ordered) are 1, 2, 3, ... in  *)
(* creation order; the keys of a bucket object are visited in insertion    *)
(* order, which is creation order.                                         *)
(* The fields `type' and `transactionTime' of a stored record are never    *)
(* read after addTransaction and are not kept in the record.               *)
(***************************************************************************)
EXTENDS Integers, Sequences, FiniteSets, TLC

VARIABLES
    clock,                  \* the wall clock (an instant)
    alive,                  \* FALSE once an exception escaped a timer callback
    accounts,               \* accounts[k]: balance and pastTransactions
    transactions,           \* sequence of records, index = transaction id
    pendingTransactions,    \* set of <<bucket key, id>>
    completedTransactions,  \* set of <<bucket key, id>>
    moved,                  \* moved[id]: how often lines 215-216 ran for id
    directCalls,            \* number of calls of the exported executeTransaction
    lastOp,                 \* the operation that just returned (none once time
                            \* has passed), its result and its executions
    pc                      \* where the timer callback stands when it is
                            \* followed line by line (Idle otherwise)

vars == <<clock, alive, accounts, transactions, pendingTransactions,
          completedTransactions, moved, directCalls, lastOp, pc>>

---------------------------------------------------------------------------
\* Bounds of the model
MaxTx == 2        \* records addTransaction may create
Horizon == 4      \* instants the clock may advance from its start
MaxDirect == 1    \* direct calls of the exported executeTransaction
Res == 2          \* instants per minute

\* Program constants
INITIAL_BALANCE == 100
MinutesPerHour == 60

REFUND == "refund"
FUND == "fund"
PENDING == "pending"
COMPLETED == "completed"
REJECTED == "rejected"
ERROR == "error"
THREW == "TypeError"       \* an exception left the function
allowedTransactionTypes == {REFUND, FUND}

---------------------------------------------------------------------------
\* JavaScript values
Num(n) == [tag |-> "num", val |-> n]
NaN == [tag |-> "NaN", val |-> 0]
Undefined == [tag |-> "undefined", val |-> 0]
NoValue == "<undefined>"       \* an absent string field of a request
NoId == 0                      \* executeTransaction called without an id

\* x - n and x + n for a number n: undefined and NaN give NaN
Sub(x, n) == IF x.tag = "num" THEN Num(x.val - n) ELSE NaN
Add(x, n) == IF x.tag = "num" THEN Num(x.val + n) ELSE NaN
\* x < 0: false for undefined and NaN
Lt0(x) == x.tag = "num" /\ x.val < 0

\* Number(amount): a number or a numeric string gives the number, else NaN
ToNumber(a) == IF a.tag \in {"num", "numstr"} THEN Num(a.val) ELSE NaN
isNaN(x) == x.tag # "num"

\* The own keys of `accounts' after init, and a key every object inherits
\* from Object.prototype: accounts['constructor'] is the function Object,
\* which is truthy and has neither a balance nor pastTransactions
OwnKeys == {"A", "B"}
ProtoKeys == {"constructor"}
AccountKeys == OwnKeys \cup ProtoKeys
HasAccount(k) == k \in AccountKeys          \* !accounts[k] is false

---------------------------------------------------------------------------
\* Clock and bucket keys
StartClock == (MinutesPerHour - 1) * Res    \* 00:59:00
MaxClock == StartClock + Horizon

AbsMinute(t) == t \div Res
Hour(t) == AbsMinute(t) \div MinutesPerHour
Minute(t) == AbsMinute(t) % MinutesPerHour

isValidDate(d) == d.tag = "date"

generateTimeStamp(t) == <<Hour(t), Minute(t)>>

\* previousMinute = getUtcNow(); previousMinute.setMinutes(now.getMinutes() - 1)
\* `now' is the first reading of the clock, `second' the second one
PreviousMinute(now, second) ==
    (Hour(second) * MinutesPerHour + (Minute(now) - 1)) * Res + (second % Res)

---------------------------------------------------------------------------
\* The store: the closure variables of the module, passed through the
\* functions as one record.  `log' collects one entry per call of
\* executeTransaction made by the running operation.
Store(a, t, p, c, m, l) ==
    [accounts |-> a, transactions |-> t, pendingTransactions |-> p,
     completedTransactions |-> c, moved |-> m, log |-> l]

\* What an observer reads of the store about transaction id: the accounts,
\* the completed index, the status of id and the buckets that index id as
\* pending
Snapshot(st, id) ==
    [accounts |-> st.accounts,
     completedTransactions |-> st.completedTransactions,
     status |-> st.transactions[id].status,
     pending |-> {e[1] : e \in {x \in st.pendingTransactions : x[2] = id}}]

Logged(st0, st1, id, ret) ==
    [st1 EXCEPT !.log = Append(@, [id |-> id, ret |-> ret,
                                   before |-> Snapshot(st0, id),
                                   after |-> Snapshot(st1, id)])]

\* The entry of the log written by Logged is completed by the caller
\* (executeScheduledJobs marks the rejection after the call returned)
Relogged(st) ==
    [st EXCEPT !.log[Len(st.log)].after =
                   Snapshot(st, st.log[Len(st.log)].id)]

\* array.filter(id => id !== transactionId)
Without(ids, transactionId) == SelectSeq(ids, LAMBDA x : x # transactionId)

\* validateTransaction without the check of line 179
validateTransaction_NoFundsCheck(accts, transaction) ==
    LET amount == transaction.amount
        credit == transaction.credit
        debit == transaction.debit
    IN  /\ ~(amount = 0 \/ credit = "" \/ debit = "")
        /\ ~(amount < 0)
        /\ HasAccount(credit) /\ HasAccount(debit)
        /\ ~Lt0(accts[credit].balance)

\* validateTransaction with <= 0 for < 0 at line 179
validateTransaction_StrictFunds(accts, transaction) ==
    LET amount == transaction.amount
        credit == transaction.credit
        debit == transaction.debit
        rest == Sub(accts[credit].balance, amount)
    IN  /\ ~(amount = 0 \/ credit = "" \/ debit = "")
        /\ ~(amount < 0)
        /\ HasAccount(credit) /\ HasAccount(debit)
        /\ ~Lt0(accts[credit].balance)
        /\ ~(Lt0(rest) \/ rest = Num(0))

validateTransaction(accts, transaction) ==
    LET amount == transaction.amount
        credit == transaction.credit
        debit == transaction.debit
    IN  /\ ~(amount = 0 \/ credit = "" \/ debit = "")        \* line 153
        /\ ~(amount < 0)                                       \* line 163
        /\ HasAccount(credit) /\ HasAccount(debit)             \* line 168
        /\ ~Lt0(accts[credit].balance)                         \* line 174
        /\ ~Lt0(Sub(accts[credit].balance, amount))            \* line 179

\* lines 214-216
UpdateBalance(accts, credit, debit, amount) ==
    LET a1 == [accts EXCEPT ![credit].balance = Sub(@, amount)]
    IN  [a1 EXCEPT ![debit].balance = Add(@, amount)]

\* lines 218-224; only called when accts[credit].pastTransactions is an array
UpdatePast(accts, credit, debit, transactionId) ==
    LET a1 == [accts EXCEPT ![credit].pastTransactions.ids =
                                Without(@, transactionId)]
        a2 == [a1 EXCEPT ![debit].pastTransactions =
                   [def |-> TRUE,
                    ids |-> Without(a1[credit].pastTransactions.ids,
                                    transactionId)]]
        a3 == [a2 EXCEPT ![credit].pastTransactions.ids =
                                Append(@, transactionId)]
    IN  [a3 EXCEPT ![debit].pastTransactions.ids = Append(@, transactionId)]

\* lines 226-236 without the insertion of line 236
MarkCompleted_NoIndex(st, transactionId) ==
    LET timeStamp == st.transactions[transactionId].timeStamp
    IN  [st EXCEPT !.transactions[transactionId].status = COMPLETED,
                   !.pendingTransactions = @ \ {<<timeStamp, transactionId>>}]

\* lines 226-236
MarkCompleted(st, transactionId) ==
    LET timeStamp == st.transactions[transactionId].timeStamp
    IN  [st EXCEPT !.transactions[transactionId].status = COMPLETED,
                   !.pendingTransactions = @ \ {<<timeStamp, transactionId>>},
                   !.completedTransactions = @ \cup {<<timeStamp, transactionId>>}]

\* executeTransaction: the new store and what the call returned
executeTransaction(st, transactionId) ==
    IF transactionId = NoId \/ transactionId \notin DOMAIN st.transactions
    THEN [st |-> st, ret |-> ERROR]
    ELSE
    LET transaction == st.transactions[transactionId]
        credit == transaction.credit
        debit == transaction.debit
        amount == transaction.amount
    IN  IF ~validateTransaction(st.accounts, transaction)
        THEN [st |-> Logged(st, st, transactionId, ERROR), ret |-> ERROR]
        ELSE
        LET st1 == [st EXCEPT
                      !.accounts = UpdateBalance(@, credit, debit, amount),
                      !.moved[transactionId] = @ + 1]
        IN  IF ~st1.accounts[credit].pastTransactions.def
            THEN \* undefined.filter(...) at line 219
                 [st |-> Logged(st, st1, transactionId, THREW), ret |-> THREW]
            ELSE
            LET st2 == [st1 EXCEPT !.accounts =
                          UpdatePast(@, credit, debit, transactionId)]
                st3 == MarkCompleted(st2, transactionId)
            IN  [st |-> Logged(st, st3, transactionId, COMPLETED),
                 ret |-> COMPLETED]

\* lines 93-94 without the delete of line 93
MarkRejected_KeepsIndexed(st, nowTimeStamp, transactionId) ==
    [st EXCEPT !.transactions[transactionId].status = REJECTED]

\* lines 93-94
MarkRejected(st, nowTimeStamp, transactionId) ==
    [st EXCEPT !.pendingTransactions = @ \ {<<nowTimeStamp, transactionId>>},
               !.transactions[transactionId].status = REJECTED]

\* Object.keys(pendingTransactions[nowTimeStamp]) in insertion order
RECURSIVE Ascending(_)
Ascending(S) ==
    IF S = {} THEN <<>>
    ELSE LET m == CHOOSE x \in S : \A y \in S : x <= y
         IN  <<m>> \o Ascending(S \ {m})

BucketKeys(st, nowTimeStamp) ==
    Ascending({id \in DOMAIN st.transactions :
                  <<nowTimeStamp, id>> \in st.pendingTransactions})

\* the callback of .map over the keys; an exception ends the loop
RECURSIVE RunJobs(_, _, _)
RunJobs(st, nowTimeStamp, keys) ==
    IF keys = <<>> THEN [st |-> st, ret |-> "done"]
    ELSE
    LET r == executeTransaction(st, Head(keys))
    IN  IF r.ret = THREW THEN [st |-> r.st, ret |-> THREW]
        ELSE IF r.ret = ERROR
        THEN RunJobs(Relogged(MarkRejected(r.st, nowTimeStamp, Head(keys))),
                     nowTimeStamp, Tail(keys))
        ELSE RunJobs(r.st, nowTimeStamp, Tail(keys))

\* executeScheduledJobs without the loop of lines 91-96: a bucket that
\* holds entries is left alone
executeScheduledJobs_NoLoop(st, now) == [st |-> st, ret |-> "done"]

executeScheduledJobs(st, now) ==
    LET nowTimeStamp == generateTimeStamp(now)
    IN  RunJobs(st, nowTimeStamp, BucketKeys(st, nowTimeStamp))

---------------------------------------------------------------------------
\* Requests
Date(t) == [tag |-> "date", val |-> t]
InvalidDate == [tag |-> "invalid", val |-> 0]

Request(time, type, credit, debit, amount) ==
    [transactionTime |-> time, type |-> type, credit |-> credit,
     debit |-> debit, amount |-> amount]

\* The checks of addTransaction (lines 263-300): TRUE if none returns ERROR
PassesChecks(request, now) ==
    /\ ~ \/ request.transactionTime = Undefined              \* line 263
         \/ request.type = NoValue
         \/ request.credit = NoValue
         \/ request.debit = NoValue
         \/ request.amount = Undefined
    /\ isValidDate(request.transactionTime)                  \* line 274
    /\ request.type \in allowedTransactionTypes              \* line 279
    /\ HasAccount(request.credit) /\ HasAccount(request.debit)  \* line 284
    /\ ~isNaN(ToNumber(request.amount))                      \* line 289
    /\ ~(now - request.transactionTime.val > 0)              \* line 297

\* addTransaction: the new store, what the call returned (ERROR, "id" or an
\* exception) and the id of the record it created (NoId if none)
addTransaction(st, request, now) ==
    IF ~PassesChecks(request, now)
    THEN [st |-> st, ret |-> ERROR, id |-> NoId]
    ELSE
    LET timeStamp == generateTimeStamp(request.transactionTime.val)
        id == Len(st.transactions) + 1
        newTransaction == [credit |-> request.credit,
                           debit |-> request.debit,
                           amount |-> ToNumber(request.amount).val,
                           status |-> PENDING,
                           timeStamp |-> timeStamp]
        st1 == [st EXCEPT
                  !.pendingTransactions = @ \cup {<<timeStamp, id>>},
                  !.transactions = Append(@, newTransaction)]
    IN  IF generateTimeStamp(now) = timeStamp
        THEN LET r == executeScheduledJobs(st1, now)
             IN  [st |-> r.st,
                  ret |-> IF r.ret = THREW THEN THREW ELSE "id",
                  id |-> id]
        ELSE [st |-> st1, ret |-> "id", id |-> id]

\* timeTickCheck; `second' is the second reading of the clock (line 77)
timeTickCheck(st, now, second) ==
    LET r1 == executeScheduledJobs(st, now)
    IN  IF r1.ret = THREW THEN r1
        ELSE executeScheduledJobs(r1.st, PreviousMinute(now, second))

---------------------------------------------------------------------------
\* The state machine
Current ==
    Store(accounts, transactions, pendingTransactions, completedTransactions,
          moved, <<>>)

Install(st) ==
    /\ accounts' = st.accounts
    /\ transactions' = st.transactions
    /\ pendingTransactions' = st.pendingTransactions
    /\ completedTransactions' = st.completedTransactions
    /\ moved' = st.moved

\* no callback is running
Idle == [at |-> "idle", now |-> 0, pass |-> 0, timeStamp |-> <<0, 0>>,
         keys |-> <<>>]

Op(name, now, ret, id, log) ==
    [op |-> name, now |-> now, ret |-> ret, id |-> id, log |-> log]

\* init (lines 44-59) was called once, as the server does at start-up, at
\* instant t
InitAt(t) ==
    /\ clock = t
    /\ alive = TRUE
    /\ accounts =
         [k \in AccountKeys |->
            IF k = "A"
            THEN [balance |-> Num(INITIAL_BALANCE),
                  pastTransactions |-> [def |-> TRUE, ids |-> <<>>]]
            ELSE IF k = "B"
            THEN [balance |-> Num(0),
                  pastTransactions |-> [def |-> TRUE, ids |-> <<>>]]
            ELSE [balance |-> Undefined,
                  pastTransactions |-> [def |-> FALSE, ids |-> <<>>]]]
    /\ transactions = <<>>
    /\ pendingTransactions = {}
    /\ completedTransactions = {}
    /\ moved = [id \in 1..MaxTx |-> 0]
    /\ directCalls = 0
    /\ lastOp = Op("init", t, "done", NoId, <<>>)
    /\ pc = Idle

Init == InitAt(StartClock)

\* the server was started in the last instant of 00:57
EarlyClock == StartClock - Res - 1
InitEarly == InitAt(EarlyClock)

\* Inputs
Transfers == { <<"A", "B">>, <<"B", "A">>, <<"A", "A">>,
               <<"A", "constructor">>, <<"constructor", "B">> }
NextMinute(now) == (AbsMinute(now) + 1) * Res
Times(now) == {now, NextMinute(now), now + (MinutesPerHour - 1) * Res}

WellFormedRequests(now) ==
    { Request(Date(t), FUND, x[1], x[2], Num(60)) :
          t \in Times(now), x \in Transfers }
    \cup { Request(Date(now), FUND, "A", "B", Num(a)) : a \in {-60, 0} }

OtherRequests(now) ==
    { Request(Undefined, FUND, "A", "B", Num(60)),
      Request(Date(now), FUND, NoValue, "B", Num(60)),
      Request(Date(now), FUND, "A", "B", Undefined),
      Request(InvalidDate, FUND, "A", "B", Num(60)),
      Request(Date(now), "transfer", "A", "B", Num(60)),
      Request(Date(now), FUND, "X", "B", Num(60)),
      Request(Date(now), FUND, "A", "X", Num(60)),
      Request(Date(now), FUND, "A", "B", [tag |-> "string", val |-> 0]),
      Request(Date(now - 1), FUND, "A", "B", Num(60)),
      Request(Date(now), REFUND, "A", "B", [tag |-> "numstr", val |-> 60]) }

Requests(now) == WellFormedRequests(now) \cup OtherRequests(now)

AddTransactionWith(request) ==
    LET r == addTransaction(Current, request, clock)
    IN  /\ alive
        /\ Len(transactions) < MaxTx \/ ~PassesChecks(request, clock)
        /\ Install(r.st)
        /\ lastOp' = Op("addTransaction", clock, r.ret, r.id, r.st.log)
        /\ UNCHANGED <<clock, alive, directCalls, pc>>

AddTransaction == \E request \in Requests(clock) : AddTransactionWith(request)

\* One run of the timer callback; the clock may move between its two readings.
\* An exception that leaves the callback ends the process.
TimeTickCheck ==
    \E d \in {0, 1} :
        LET r == timeTickCheck(Current, clock, clock + d)
        IN  /\ alive
            /\ clock + d <= MaxClock
            /\ Install(r.st)
            /\ alive' = (r.ret # THREW)
            /\ clock' = clock + d
            /\ lastOp' = Op("timeTickCheck", clock, r.ret, NoId, r.st.log)
            /\ UNCHANGED <<directCalls, pc>>

\* A direct call of the exported executeTransaction
ExecuteTransaction ==
    \E id \in 0..(Len(transactions) + 1) :
        LET r == executeTransaction(Current, id)
        IN  /\ alive
            /\ directCalls < MaxDirect
            /\ Install(r.st)
            /\ directCalls' = directCalls + 1
            /\ lastOp' = Op("executeTransaction", clock, r.ret, id, r.st.log)
            /\ UNCHANGED <<clock, alive, pc>>

\* Time passes between two operations
AdvanceClock ==
    /\ clock < MaxClock
    /\ clock' = clock + 1
    /\ lastOp' = Op("none", clock + 1, "done", NoId, <<>>)
    /\ UNCHANGED <<alive, accounts, transactions, pendingTransactions,
                   completedTransactions, moved, directCalls, pc>>

\* Time passes, and no minute ends before the interval timer fired in it
\* (setInterval, line 58)
AdvanceClockTicked ==
    /\ AbsMinute(clock + 1) # AbsMinute(clock) =>
           /\ lastOp.op = "timeTickCheck"
           /\ AbsMinute(lastOp.now) = AbsMinute(clock)
    /\ AdvanceClock

Next == AddTransaction \/ TimeTickCheck \/ AdvanceClock

Spec == Init /\ [][Next]_vars

NextExport == AddTransaction \/ TimeTickCheck \/ AdvanceClock \/ ExecuteTransaction

SpecExport == Init /\ [][NextExport]_vars

\* the same program, started earlier
SpecEarly == InitEarly /\ [][Next]_vars

NextTicked == AddTransaction \/ TimeTickCheck \/ AdvanceClockTicked

\* Time does not stop (until the last instant of the model), and no minute
\* ends before the timer fired in it
SpecTicked ==
    /\ Init
    /\ [][NextTicked]_vars
    /\ SF_vars(AdvanceClockTicked)

---------------------------------------------------------------------------
\* The timer callback followed line by line.  JavaScript runs a callback to
\* its end before any other handler starts, so addTransaction and the
\* passing of time between operations wait until the callback has returned;
\* the clock is read a second time at line 77.
Running(at) == pc.at = at /\ pc.keys # <<>>
transactionId == Head(pc.keys)
Goto(at) == pc' = [pc EXCEPT !.at = at]
NextKey == pc' = [pc EXCEPT !.at = "l91", !.keys = Tail(@)]

\* lines 72-74 and 85-91: first reading of the clock, keys of its bucket
StepStart ==
    /\ pc = Idle /\ alive
    /\ pc' = [at |-> "l91", now |-> clock, pass |-> 1,
              timeStamp |-> generateTimeStamp(clock),
              keys |-> BucketKeys(Current, generateTimeStamp(clock))]
    /\ lastOp' = Op("none", clock, "done", NoId, <<>>)
    /\ UNCHANGED <<clock, alive, accounts, transactions, pendingTransactions,
                   completedTransactions, moved, directCalls>>

\* lines 92 and 194-212: the next key is validated
StepValidate ==
    /\ Running("l91")
    /\ IF validateTransaction(accounts, transactions[transactionId])
       THEN Goto("l215") ELSE Goto("l93")
    /\ UNCHANGED <<clock, alive, accounts, transactions, pendingTransactions,
                   completedTransactions, moved, directCalls, lastOp>>

\* lines 215-216
Step215 ==
    LET transaction == transactions[transactionId]
    IN  /\ Running("l215")
        /\ accounts' = UpdateBalance(accounts, transaction.credit,
                                     transaction.debit, transaction.amount)
        /\ moved' = [moved EXCEPT ![transactionId] = @ + 1]
        /\ Goto("l219")
        /\ UNCHANGED <<clock, alive, transactions, pendingTransactions,
                       completedTransactions, directCalls, lastOp>>

\* lines 219-224, or the TypeError of line 219 that ends the process
Step219 ==
    LET transaction == transactions[transactionId]
    IN  /\ Running("l219")
        /\ IF accounts[transaction.credit].pastTransactions.def
           THEN /\ accounts' = UpdatePast(accounts, transaction.credit,
                                          transaction.debit, transactionId)
                /\ Goto("l226")
                /\ UNCHANGED <<alive, lastOp>>
           ELSE /\ alive' = FALSE
                /\ pc' = Idle
                /\ lastOp' = Op("timeTickCheck", pc.now, THREW, NoId, <<>>)
                /\ UNCHANGED accounts
        /\ UNCHANGED <<clock, transactions, pendingTransactions,
                       completedTransactions, moved, directCalls>>

\* line 226
Step226 ==
    /\ Running("l226")
    /\ transactions' = [transactions EXCEPT ![transactionId].status = COMPLETED]
    /\ Goto("l228")
    /\ UNCHANGED <<clock, alive, accounts, pendingTransactions,
                   completedTransactions, moved, directCalls, lastOp>>

\* line 228
Step228 ==
    /\ Running("l228")
    /\ pendingTransactions' = pendingTransactions \
           {<<transactions[transactionId].timeStamp, transactionId>>}
    /\ Goto("l236")
    /\ UNCHANGED <<clock, alive, accounts, transactions,
                   completedTransactions, moved, directCalls, lastOp>>

\* lines 230-238
Step236 ==
    /\ Running("l236")
    /\ completedTransactions' = completedTransactions \cup
           {<<transactions[transactionId].timeStamp, transactionId>>}
    /\ NextKey
    /\ UNCHANGED <<clock, alive, accounts, transactions, pendingTransactions,
                   moved, directCalls, lastOp>>

\* line 93
Step93 ==
    /\ Running("l93")
    /\ pendingTransactions' = pendingTransactions \
           {<<pc.timeStamp, transactionId>>}
    /\ Goto("l94")
    /\ UNCHANGED <<clock, alive, accounts, transactions,
                   completedTransactions, moved, directCalls, lastOp>>

\* line 94
Step94 ==
    /\ Running("l94")
    /\ transactions' = [transactions EXCEPT ![transactionId].status = REJECTED]
    /\ NextKey
    /\ UNCHANGED <<clock, alive, accounts, pendingTransactions,
                   completedTransactions, moved, directCalls, lastOp>>

\* lines 77-79 and 85-91: second reading of the clock, keys of the bucket
\* of previousMinute
StepSecondPass ==
    \E d \in {0, 1} :
        LET timeStamp == generateTimeStamp(PreviousMinute(pc.now, clock + d))
        IN  /\ pc.at = "l91" /\ pc.keys = <<>> /\ pc.pass = 1
            /\ clock + d <= MaxClock
            /\ clock' = clock + d
            /\ pc' = [pc EXCEPT !.pass = 2, !.timeStamp = timeStamp,
                                !.keys = BucketKeys(Current, timeStamp)]
            /\ UNCHANGED <<alive, accounts, transactions, pendingTransactions,
                           completedTransactions, moved, directCalls, lastOp>>

\* line 81: the callback returns
StepReturn ==
    /\ pc.at = "l91" /\ pc.keys = <<>> /\ pc.pass = 2
    /\ pc' = Idle
    /\ lastOp' = Op("timeTickCheck", pc.now, "done", NoId, <<>>)
    /\ UNCHANGED <<clock, alive, accounts, transactions, pendingTransactions,
                   completedTransactions, moved, directCalls>>

IdleAddTransaction == pc = Idle /\ AddTransaction
IdleAdvanceClock == pc = Idle /\ AdvanceClock

NextSteps ==
    \/ IdleAddTransaction \/ IdleAdvanceClock
    \/ StepStart \/ StepValidate \/ Step215 \/ Step219 \/ Step226 \/ Step228
    \/ Step236 \/ Step93 \/ Step94 \/ StepSecondPass \/ StepReturn

SpecSteps == Init /\ [][NextSteps]_vars

---------------------------------------------------------------------------
\* Vocabulary of the claims
Ids == DOMAIN transactions
Status(id) == transactions[id].status
Resolved(id) == Status(id) \in {COMPLETED, REJECTED}
\* the minute a bucket key names, counted like AbsMinute
BucketMinute(timeStamp) == timeStamp[1] * MinutesPerHour + timeStamp[2]
Balance(k) == accounts[k].balance
ByScheduler == lastOp.op \in {"addTransaction", "timeTickCheck"}
LogEntries == {lastOp.log[i] : i \in DOMAIN lastOp.log}

\* C1: under any sequence of addTransaction calls and ticks, the amount of
\* each transaction id is moved between the accounts at most once.
C1_NoDoubleExecution == \A id \in Ids : moved[id] <= 1

\* C2: the balances of all accounts always add up to the initial sum, 100 + 0.
C2_Conservation ==
    /\ \A k \in OwnKeys : Balance(k).tag = "num"
    /\ Balance("A").val + Balance("B").val = INITIAL_BALANCE + 0

\* C3: with the exported executeTransaction callable too, a status that is
\* COMPLETED or REJECTED never changes again, and a PENDING one changes only
\* to COMPLETED or REJECTED.
C3_StatusTerminal ==
    [][\A id \in Ids :
          /\ Resolved(id) => transactions'[id].status = Status(id)
          /\ transactions'[id].status \in {PENDING, COMPLETED, REJECTED}]_vars

\* C4: between operations, an id is in the pending index, under its own
\* bucket key, exactly if the status of its record is PENDING.
C4_PendingIndex ==
    pendingTransactions =
        { <<transactions[id].timeStamp, id>> :
              id \in {i \in Ids : Status(i) = PENDING} }

\* a tick has resolved a transaction while another one is still pending
C4_Witness ==
    /\ lastOp.op = "timeTickCheck"
    /\ \E e \in LogEntries : e.after.status \in {COMPLETED, REJECTED}
    /\ \E id \in Ids : Status(id) = PENDING

\* C5: when addTransaction returns the id of a record whose bucket key is the
\* bucket key of the `now' it read, the record is COMPLETED or REJECTED.
C5_ImmediateExecution ==
    (/\ lastOp.op = "addTransaction"
     /\ lastOp.ret = "id"
     /\ transactions[lastOp.id].timeStamp = generateTimeStamp(lastOp.now))
    => Resolved(lastOp.id)

\* addTransaction returned the id of a record in the current bucket
C5_Witness ==
    /\ lastOp.op = "addTransaction"
    /\ lastOp.ret = "id"
    /\ transactions[lastOp.id].timeStamp = generateTimeStamp(lastOp.now)
    /\ Status(lastOp.id) = REJECTED

\* C6: a transaction is neither resolved nor has its amount moved while the
\* clock has not reached the minute of its bucket.
C6_NoEarlyExecution ==
    \A id \in Ids :
        (Status(id) # PENDING \/ moved[id] > 0)
            => BucketMinute(transactions[id].timeStamp) <= AbsMinute(clock)

\* C7: with the timer firing again and again for as long as the process
\* lives, and in every minute, every transaction whose id addTransaction
\* returned (and whose minute the clock of the model reaches) is eventually
\* COMPLETED or REJECTED.
\* again and again the timer callback has just run, unless the process ended
TimerFires ==
    []<>((lastOp.op = "timeTickCheck" /\ lastOp.now = clock) \/ ~alive)

C7_EventualResolution ==
    TimerFires =>
    \A id \in 1..MaxTx :
        (/\ lastOp.op = "addTransaction" /\ lastOp.ret = "id" /\ lastOp.id = id
         /\ BucketMinute(transactions[id].timeStamp) <= AbsMinute(MaxClock))
        ~> (id \in Ids /\ Resolved(id))

\* The requests the claim C8 lists as rejected: a missing field, an invalid
\* time, a type other than fund and refund, a credit or debit that is no
\* account, a non-numeric amount, a time strictly before `now'
ShouldBeRejected(request, now) ==
    \/ request.transactionTime = Undefined
    \/ request.type = NoValue
    \/ request.credit = NoValue
    \/ request.debit = NoValue
    \/ request.amount = Undefined
    \/ request.transactionTime.tag # "date"
    \/ request.type \notin {"fund", "refund"}
    \/ request.credit \notin {"A", "B"}
    \/ request.debit \notin {"A", "B"}
    \/ request.amount.tag \notin {"num", "numstr"}
    \/ request.transactionTime.val < now

\* C8: an addTransaction call with such a request returns the error value
\* and leaves transactions, both indexes and all accounts unchanged.
C8_RejectedRequestsChangeNothing ==
    [][\A request \in Requests(clock) :
          (ShouldBeRejected(request, clock) /\ AddTransactionWith(request))
              => /\ lastOp'.ret = ERROR
                 /\ UNCHANGED <<accounts, transactions, pendingTransactions,
                                completedTransactions>>]_vars

\* an execution of a PENDING transaction whose amount exceeds the balance of
\* its credit account
Overdraws(e) ==
    LET bal == e.before.accounts[transactions[e.id].credit].balance
    IN  /\ e.before.status = PENDING
        /\ bal.tag = "num"
        /\ transactions[e.id].amount > bal.val

\* C9: an execution, by a tick or by immediate execution, of a PENDING
\* transaction whose amount exceeds the balance of its credit account ends
\* REJECTED and changes no balance, no pastTransactions list and not the
\* completed index.
C9_RejectionLeavesLedger ==
    ByScheduler =>
        \A e \in LogEntries :
            Overdraws(e) =>
                /\ e.after.status = REJECTED
                /\ e.after.accounts = e.before.accounts
                /\ e.after.completedTransactions = e.before.completedTransactions

\* a tick has executed a transaction that overdraws its credit account
C9_Witness ==
    /\ lastOp.op = "timeTickCheck"
    /\ \E e \in LogEntries : Overdraws(e) /\ e.after.status = REJECTED

\* the balances after a transfer of amount from credit to debit
Transferred(accts, credit, debit, amount) ==
    [k \in OwnKeys |->
        accts[k].balance.val - (IF k = credit THEN amount ELSE 0)
                             + (IF k = debit THEN amount ELSE 0)]

BalancesOf(accts) == [k \in OwnKeys |-> accts[k].balance.val]

\* two transfers of 60 from A to B were submitted one after the other in the
\* current bucket, the second one just now
TwoTransfersOf60 ==
    /\ lastOp.op = "addTransaction"
    /\ lastOp.ret = "id"
    /\ lastOp.id = 2
    /\ \A id \in {1, 2} :
          /\ transactions[id].credit = "A"
          /\ transactions[id].debit = "B"
          /\ transactions[id].amount = 60
          /\ transactions[id].timeStamp = generateTimeStamp(lastOp.now)

Past(k) == accounts[k].pastTransactions.ids
Occurrences(ids, id) == Cardinality({i \in DOMAIN ids : ids[i] = id})

\* C12: no account's pastTransactions holds a transaction id twice, and
\* after a successful execution of a transaction its id occurs exactly once
\* in the list of its credit account and exactly once in the list of its
\* debit account, also when the two are the same account.
C12_EachIdOnce ==
    /\ \A k \in OwnKeys : \A id \in Ids : Occurrences(Past(k), id) <= 1
    /\ \A e \in LogEntries :
          e.ret = COMPLETED =>
             \A k \in {transactions[e.id].credit, transactions[e.id].debit} :
                Occurrences(e.after.accounts[k].pastTransactions.ids, e.id) = 1

\* C13: in every reachable state each record of transactions, whatever its
\* status, has an amount greater than 0: addTransaction never creates a
\* record whose amount is zero or negative.
C13_PositiveAmounts == \A id \in Ids : transactions[id].amount > 0

ListOf(accts, k) == accts[k].pastTransactions.ids

\* C14: a successful execution of transaction T leaves the list of the
\* debit account equal to its own previous list without T, followed by T,
\* and likewise the list of the credit account; executing T removes no
\* other id from the list of any account.  Stated for the transfers between
\* two different accounts (the self-transfer is the case of C12).
C14_OnlyAppends ==
    \A e \in LogEntries :
       (e.ret = COMPLETED /\ transactions[e.id].credit # transactions[e.id].debit) =>
          /\ \A k \in {transactions[e.id].credit, transactions[e.id].debit} :
                ListOf(e.after.accounts, k) =
                   Append(Without(ListOf(e.before.accounts, k), e.id), e.id)
          /\ \A k \in OwnKeys : \A id \in Ids \ {e.id} :
                Occurrences(ListOf(e.before.accounts, k), id) > 0
                => Occurrences(ListOf(e.after.accounts, k), id) > 0

\* C15: a call of the exported executeTransaction for a transaction whose
\* status is already COMPLETED or REJECTED changes no balance, no
\* pastTransactions list and no status.
C15_ReplayHarmless ==
    [][(/\ directCalls' = directCalls + 1
        /\ lastOp'.id \in Ids
        /\ Resolved(lastOp'.id))
       => /\ accounts' = accounts
          /\ \A id \in Ids : transactions'[id].status = Status(id)]_vars

\* C16: whenever executeTransaction is invoked (by a tick, by immediate
\* execution or directly through the export) on a PENDING transaction that
\* fails the execution-time validation, the transaction is REJECTED and
\* absent from the pending index once the call has returned.
C16_FailureRejects ==
    \A e \in LogEntries :
       (e.before.status = PENDING /\ e.ret = ERROR)
       => Status(e.id) = REJECTED /\ e.after.pending = {}

PendingIn(timeStamp) == {id \in Ids : <<timeStamp, id>> \in pendingTransactions}

\* C17: when timeTickCheck has finished, no transaction is left in the
\* pending index under the bucket of the instant read at the start of the
\* tick, nor under the bucket exactly one minute before that instant; a
\* rejection in a bucket does not keep the rest of the bucket from being
\* executed in the same pass.
C17_TickDrainsBothBuckets ==
    (lastOp.op = "timeTickCheck" /\ lastOp.ret = "done") =>
        /\ PendingIn(generateTimeStamp(lastOp.now)) = {}
        /\ PendingIn(generateTimeStamp(lastOp.now - Res)) = {}


\* getHistory (line 344): the completed index; its entries are the records
\* of the table themselves (line 236 stores the object read at line 207)
getHistory == {[timeStamp |-> e[1], id |-> e[2], status |-> Status(e[2])] :
                  e \in completedTransactions}

\* C18: in every reachable state a transaction is in completedTransactions,
\* under its own bucket key, if and only if its status is COMPLETED; no
\* entry is ever removed from completedTransactions; getHistory never
\* shows a REJECTED or PENDING transaction.
C18_CompletedIndexExact ==
    /\ [](/\ completedTransactions =
               {<<transactions[id].timeStamp, id>> :
                   id \in {i \in Ids : Status(i) = COMPLETED}}
          /\ \A h \in getHistory : h.status = COMPLETED)
    /\ [][completedTransactions \subseteq completedTransactions']_vars

\* the history holds a completed transaction while another one is REJECTED
\* and a direct call of executeTransaction has been made
C18_Witness ==
    /\ \E h \in getHistory : h.status = COMPLETED
    /\ \E id \in Ids : Status(id) = REJECTED
    /\ directCalls > 0


\* C19: on the completion path and on the rejection path there is no
\* intermediate state in which a transaction has left pendingTransactions
\* while its status is still PENDING, and none in which the balances have
\* been updated for it while its status is still PENDING.  Stated for the
\* transfers between own accounts of the store (a transfer that names the
\* inherited key is the case of C8).
C19_NoHalfDoneExecution ==
    \A id \in Ids :
       (/\ Status(id) = PENDING
        /\ transactions[id].credit \in OwnKeys
        /\ transactions[id].debit \in OwnKeys) =>
          /\ <<transactions[id].timeStamp, id>> \in pendingTransactions
          /\ moved[id] = 0


\* C20: in every reachable state each id in an account's pastTransactions
\* is the id of a COMPLETED transaction whose credit or debit account is
\* that account, also after self-transfers.
C20_OwnTransfersOnly ==
    \A k \in OwnKeys : \A i \in DOMAIN Past(k) :
       LET id == Past(k)[i]
       IN  /\ id \in Ids
           /\ Status(id) = COMPLETED
           /\ k \in {transactions[id].credit, transactions[id].debit}

====
